---- MODULE Spec2Model ----
(***************************************************************************)
(* Versioned knowledge store and retrieval of LureMaster-Agent             *)
(* (src/skills/knowledge_manager.py, src/config/schemas.py,                *)
(* src/skills/vector_store.py).                                            *)
(*                                                                         *)
(* Representation                                                          *)
(*  - a Python dict is a function whose DOMAIN is the set of keys present; *)
(*    d.get(k) is None exactly when k is not in DOMAIN d (candidate        *)
(*    records never carry an explicit null);                               *)
(*  - the strings the code lower-cases or measures (name, aliases, tips)   *)
(*    are sequences of one-character strings; enum-like strings (source,   *)
(*    status, category keys, verifier, change note) are plain strings;     *)
(*  - a confidence is an integer number of percent (0.7 is 70);            *)
(*  - datetime.now() is the logical clock `now`, which advances every time *)
(*    an operation reads it;                                               *)
(*  - every store instance has its own cache (memK, memV); the two JSON    *)
(*    files are diskK and diskV; `shared` records which in-memory ledger   *)
(*    records hold, as their "data", the very dict object that is stored   *)
(*    in the knowledge list (Python reference semantics).                  *)
(*  - retrieval scores are integers: a keyword score and a cosine           *)
(*    similarity count tenths (0.8 is 8), a weight counts tenths, and a     *)
(*    fused score, a product of the two, counts hundredths (0.87 is 87);    *)
(*    the rounding of binary floating point is not modelled;                *)
(*  - the sentence encoder is a library outside the repository: the text    *)
(*    it was given stands for the vector it returns, and the similarity of  *)
(*    a query to a text is any value of SemScores.                          *)
(***************************************************************************)
EXTENDS Integers, Sequences, FiniteSets, TLC

VARIABLES memK, memV, shared, diskK, diskV, backups, now, ret,
          available, index, vret

\* the vector store: whether the embedding backend can be loaded, the index
\* file, and what the last retrieval call returned
vsvars == <<available, index, vret>>

vars == <<memK, memV, shared, diskK, diskV, backups, now, ret, vsvars>>

----------------------------------------------------------------------------
(* Bounds of the explored behaviours                                        *)

MaxClock == 3
MaxFeedback == 1
MaxClockFb == 2
MaxFeedbackFb == 6
MaxClockTwo == 2
MaxFeedbackTwo == 1
MaxClockMeta == 3
MaxFeedbackMeta == 1
MaxClockValid == 2
MaxFeedbackValid == 1
MaxClockRec == 2
MaxFeedbackRec == 10
MaxClockIO == 2
MaxClockVS == 2
MaxClockTopK == 3
MaxClockMerge == 3
MaxClockRemerge == 3
MaxFeedbackRemerge == 5

----------------------------------------------------------------------------
(* Values                                                                   *)

None == "<None>"
NoneInt == -1
StrNone == <<"N", "o", "n", "e">>

Inst == {"A", "B"}

Range(s) == {s[n] : n \in 1..Len(s)}

RECURSIVE PermsOf(_)
PermsOf(S) ==
    IF S = {} THEN {<<>>}
    ELSE UNION {{<<x>> \o p : p \in PermsOf(S \ {x})} : x \in S}

\* max() replaced by its second argument
MaxTakesNew(a, b) == b

Max(a, b) == IF a >= b THEN a ELSE b

Lower(ch) ==
    CASE ch = "A" -> "a"
      [] ch = "B" -> "b"
      [] ch = "X" -> "x"
      [] OTHER -> ch

StrLower(s) == [n \in 1..Len(s) |-> Lower(s[n])]

EmptyDict == <<>>

DictGet(d, k, default) == IF k \in DOMAIN d THEN d[k] ELSE default

DictSet(d, k, v) == (k :> v) @@ d

----------------------------------------------------------------------------
(* src/config/schemas.py                                                    *)

SCHEMA_MAP == {"fish", "lure", "rig", "spot_type"}

\* the SCHEMA_MAP lookup left out: every data_type passes
validate_data_any_type(data, data_type) ==
    /\ "name" \in DOMAIN data
    /\ data["name"] # <<>>

\* "not data[field_name]": of the values a name takes here, the strings, the
\* empty one is the falsy one
validate_data(data, data_type) ==
    /\ data_type \in SCHEMA_MAP
    /\ "name" \in DOMAIN data
    /\ data["name"] # <<>>

\* a call of validate_data, with its arguments and its result
validate(data, data_type) ==
    /\ ret' = [inst |-> "-", ok |-> validate_data(data, data_type),
               msg |-> "validate_data",
               val |-> [data |-> data, data_type |-> data_type]]
    /\ UNCHANGED <<memK, memV, shared, diskK, diskV, backups, now, vsvars>>

----------------------------------------------------------------------------
(* src/skills/knowledge_manager.py: constants and dataclasses               *)

TYPE_MAPPING ==
    [fish |-> "fish_species", lure |-> "lures", rig |-> "rigs",
     spot_type |-> "spot_types", fish_species |-> "fish_species",
     lures |-> "lures", rigs |-> "rigs", spot_types |-> "spot_types"]

DEFAULT_CONFIDENCE ==
    [expert |-> 100, manual |-> 90, collected |-> 70,
     llm_generated |-> 60, user_feedback |-> 80, imported |-> 70]

\* the version argument is not passed on: the dataclass default 1 is used
KnowledgeMetaDefaultVersion(version, source, confidence, verified, status, parent_version, t) ==
    [version |-> 1, created_at |-> t, updated_at |-> t,
     source |-> source, confidence |-> confidence, verified |-> verified,
     verified_by |-> None, verified_at |-> NoneInt,
     feedback_count |-> 0, positive_feedback |-> 0, negative_feedback |-> 0,
     status |-> status, parent_version |-> parent_version, tags |-> <<>>]

KnowledgeMeta(version, source, confidence, verified, status, parent_version, t) ==
    [version |-> version, created_at |-> t, updated_at |-> t,
     source |-> source, confidence |-> confidence, verified |-> verified,
     verified_by |-> None, verified_at |-> NoneInt,
     feedback_count |-> 0, positive_feedback |-> 0, negative_feedback |-> 0,
     status |-> status, parent_version |-> parent_version, tags |-> <<>>]

KnowledgeVersion(version, data, meta, changes, t) ==
    [version |-> version, data |-> data, meta |-> meta, changes |-> changes,
     changed_at |-> t, changed_by |-> "system"]

get_type_key(data_type) == DictGet(TYPE_MAPPING, data_type, data_type)

VersionKey(key, data) == <<key, DictGet(data, "name", StrNone)>>

----------------------------------------------------------------------------
(* Persistence                                                              *)

\* the file is read again on every call instead of the cached document
load_knowledge_reload(i) ==
    IF diskK.exists THEN diskK.doc
    ELSE IF memK[i].loaded THEN memK[i].doc ELSE EmptyDict

load_knowledge(i) ==
    IF memK[i].loaded THEN memK[i].doc
    ELSE IF diskK.exists THEN diskK.doc ELSE EmptyDict

load_versions(i) ==
    IF memV[i].loaded THEN memV[i].doc
    ELSE IF diskV.exists THEN diskV.doc ELSE EmptyDict

Loaded(doc) == [loaded |-> TRUE, doc |-> doc]

File(doc) == [exists |-> TRUE, doc |-> doc]

save_knowledge(i, knowledge) ==
    /\ diskK' = File(knowledge)
    /\ memK' = [memK EXCEPT ![i] = Loaded(knowledge)]

save_versions(i, versions) ==
    /\ diskV' = File(versions)
    /\ memV' = [memV EXCEPT ![i] = Loaded(versions)]

\* a file holding only a proper prefix of the JSON text of doc
TornFile(doc) == [exists |-> TRUE, doc |-> doc, torn |-> TRUE]

IsTorn(file) == "torn" \in DOMAIN file

\* open(path, "w") truncates the file and json.dump writes it piece by piece:
\* an OSError raised before the open leaves the previous file, one raised
\* during the writes a prefix, one raised by the final flush the whole text
FailedWrite(file, doc) == {file, TornFile(doc), File(doc)}

\* the document passed in is the cached object, already changed in place
save_knowledge_fails(i, knowledge) ==
    /\ diskK' \in FailedWrite(diskK, knowledge)
    /\ memK' = [memK EXCEPT ![i] = Loaded(knowledge)]

save_versions_fails(i, versions) ==
    /\ diskV' \in FailedWrite(diskV, versions)
    /\ memV' = [memV EXCEPT ![i] = Loaded(versions)]

\* json.load can parse the files the instance has not cached yet
Readable(i) ==
    /\ memK[i].loaded \/ ~IsTorn(diskK)
    /\ memV[i].loaded \/ ~IsTorn(diskV)

----------------------------------------------------------------------------
(* In-memory aliasing: versions[e.vkey][e.pos]["data"] IS knowledge[e.key][e.idx] *)

Share(vkey, pos, key, idx) == [vkey |-> vkey, pos |-> pos, key |-> key, idx |-> idx]

\* the ledger as it reads after the dict stored at knowledge[key][idx] was
\* mutated in place into `item`
MutateInPlace(sh, versions, key, idx, item) ==
    [vk \in DOMAIN versions |->
        [p \in 1..Len(versions[vk]) |->
            IF Share(vk, p, key, idx) \in sh
            THEN [versions[vk][p] EXCEPT !.data = item]
            ELSE versions[vk][p]]]

\* knowledge[key][idx] is rebound to another dict: the old one stays in the ledger only
Rebind(sh, key, idx) == {e \in sh : ~(e.key = key /\ e.idx = idx)}

----------------------------------------------------------------------------
(* KnowledgeManager._find_existing: index of the first match, 0 for (None, -1) *)

ItemMatches(item, name) ==
    \/ StrLower(DictGet(item, "name", <<>>)) = name
    \/ \E n \in 1..Len(DictGet(item, "aliases", <<>>)) :
           StrLower(item["aliases"][n]) = name

\* only the aliases are scanned, the item's own name is not compared
find_existing_aliases_only(data, items) ==
    LET name == StrLower(DictGet(data, "name", <<>>))
        hits == {n \in 1..Len(items) :
                    \E a \in 1..Len(DictGet(items[n], "aliases", <<>>)) :
                        StrLower(items[n]["aliases"][a]) = name}
    IN IF hits = {} THEN 0 ELSE CHOOSE n \in hits : \A m \in hits : n <= m

find_existing(data, items) ==
    LET name == StrLower(DictGet(data, "name", <<>>))
        hits == {n \in 1..Len(items) : ItemMatches(items[n], name)}
    IN IF hits = {} THEN 0 ELSE CHOOSE n \in hits : \A m \in hits : n <= m

----------------------------------------------------------------------------
(* KnowledgeManager._merge_data                                             *)
(* The isinstance tests are decided by the field: in every candidate and    *)
(* every stored item "aliases" is a list of strings, "name" and "tips" are  *)
(* strings, so str(x) of a list element is x.                               *)

ListFields == {"aliases"}

StrFields == {"name", "tips"}

MergeKeys(existing, new_data) == (DOMAIN existing \cup DOMAIN new_data) \ {"_meta"}

\* keys whose old and new values are both lists: list(set(old) | set(new)),
\* whose element order is whatever the set iteration yields
UnionKeys(existing, new_data) == DOMAIN existing \cap DOMAIN new_data \cap ListFields

ListOrders(existing, new_data) ==
    LET uk == UnionKeys(existing, new_data)
        U(k) == Range(existing[k]) \cup Range(new_data[k])
    IN {ord \in [uk -> UNION {PermsOf(U(k)) : k \in uk}] :
            \A k \in uk : ord[k] \in PermsOf(U(k))}

\* the longer-string test left out: the new string always wins
MergeStrTakesNew(old_val, new_val) == new_val

MergeStr(old_val, new_val) ==
    IF old_val # new_val /\ Len(new_val) > Len(old_val) THEN new_val ELSE old_val

merge_data(existing, new_data, ord) ==
    [k \in MergeKeys(existing, new_data) |->
        IF k \notin DOMAIN new_data THEN existing[k]
        ELSE IF k \notin DOMAIN existing THEN new_data[k]
        ELSE IF k \in ListFields THEN ord[k]
        ELSE IF k \in StrFields THEN MergeStr(existing[k], new_data[k])
        ELSE new_data[k]]

----------------------------------------------------------------------------
(* KnowledgeManager.add_knowledge and its two branches                      *)
(* The store starts empty and both branches attach a complete "_meta", so   *)
(* the defaults of old_meta.get(...) are never taken and a found item is    *)
(* never an empty (falsy) dict: `if existing` is `existing_idx # 0`.        *)

Call(data, data_type, source, confidence, verified, changes) ==
    [data |-> data, data_type |-> data_type, source |-> source,
     confidence |-> confidence, verified |-> verified, changes |-> changes]

Ret(i, ok, msg, val) == [inst |-> i, ok |-> ok, msg |-> msg, val |-> val]

AppendRecord(versions, vkey, rec) ==
    DictSet(versions, vkey, Append(DictGet(versions, vkey, <<>>), rec))

\* the category's list is replaced by the new item instead of being appended to
add_new_replacing(i, knowledge, versions, key, data, source, confidence, verified) ==
    LET meta == KnowledgeMeta(1, source, confidence, verified, "active", NoneInt, now)
        data_with_meta == DictSet(data, "_meta", meta)
        knowledge2 == [knowledge EXCEPT ![key] = <<data_with_meta>>]
        version_key == VersionKey(key, data)
        version_record == KnowledgeVersion(1, data, meta, "initial version", now)
        versions2 == AppendRecord(versions, version_key, version_record)
    IN /\ save_knowledge(i, knowledge2)
       /\ save_versions(i, versions2)
       /\ shared' = shared
       /\ ret' = Ret(i, TRUE, "added", confidence)

add_new(i, knowledge, versions, key, data, source, confidence, verified) ==
    LET meta == KnowledgeMeta(1, source, confidence, verified, "active", NoneInt, now)
        data_with_meta == DictSet(data, "_meta", meta)
        knowledge2 == [knowledge EXCEPT ![key] = Append(@, data_with_meta)]
        version_key == VersionKey(key, data)
        version_record == KnowledgeVersion(1, data, meta, "initial version", now)
        versions2 == AppendRecord(versions, version_key, version_record)
    IN /\ save_knowledge(i, knowledge2)
       /\ save_versions(i, versions2)
       /\ shared' = shared
       /\ ret' = Ret(i, TRUE, "added", confidence)

\* the new metadata takes the old status instead of ACTIVE
update_existing_keeping_status(i, knowledge, versions, key, idx, data, source, confidence, verified, changes) ==
    LET existing == knowledge[key][idx]
        old_meta == existing["_meta"]
        old_version == old_meta.version
        new_meta == KnowledgeMeta(old_version + 1, source,
                                  Max(old_meta.confidence, confidence),
                                  verified \/ old_meta.verified,
                                  old_meta.status, old_version, now)
        version_key == VersionKey(key, data)
    IN \E ord \in ListOrders(existing, data) :
        LET merged_data == DictSet(merge_data(existing, data, ord), "_meta", new_meta)
            knowledge2 == [knowledge EXCEPT ![key][idx] = merged_data]
            version_record == KnowledgeVersion(new_meta.version, merged_data, new_meta,
                                               IF changes # "" THEN changes ELSE "data update",
                                               now)
            versions2 == AppendRecord(versions, version_key, version_record)
        IN /\ save_knowledge(i, knowledge2)
           /\ save_versions(i, versions2)
           /\ shared' = [shared EXCEPT ![i] =
                           Rebind(@, key, idx) \cup
                           {Share(version_key, Len(versions2[version_key]), key, idx)}]
           /\ ret' = Ret(i, TRUE, "updated", new_meta.version)

update_existing(i, knowledge, versions, key, idx, data, source, confidence, verified, changes) ==
    LET existing == knowledge[key][idx]
        old_meta == existing["_meta"]
        old_version == old_meta.version
        new_meta == KnowledgeMeta(old_version + 1, source,
                                  Max(old_meta.confidence, confidence),
                                  verified \/ old_meta.verified,
                                  "active", old_version, now)
        version_key == VersionKey(key, data)
    IN \E ord \in ListOrders(existing, data) :
        LET merged_data == DictSet(merge_data(existing, data, ord), "_meta", new_meta)
            knowledge2 == [knowledge EXCEPT ![key][idx] = merged_data]
            version_record == KnowledgeVersion(new_meta.version, merged_data, new_meta,
                                               IF changes # "" THEN changes ELSE "data update",
                                               now)
            versions2 == AppendRecord(versions, version_key, version_record)
        IN /\ save_knowledge(i, knowledge2)
           /\ save_versions(i, versions2)
           /\ shared' = [shared EXCEPT ![i] =
                           Rebind(@, key, idx) \cup
                           {Share(version_key, Len(versions2[version_key]), key, idx)}]
           /\ ret' = Ret(i, TRUE, "updated", new_meta.version)

\* _add_new when the write of `file` raises OSError: the append to the cached
\* collection and ledger has been done, save_versions is not reached when
\* save_knowledge raises
add_new_save_fails(i, knowledge, versions, key, data, source, confidence, verified, file) ==
    LET meta == KnowledgeMeta(1, source, confidence, verified, "active", NoneInt, now)
        data_with_meta == DictSet(data, "_meta", meta)
        knowledge2 == [knowledge EXCEPT ![key] = Append(@, data_with_meta)]
        version_key == VersionKey(key, data)
        version_record == KnowledgeVersion(1, data, meta, "initial version", now)
        versions2 == AppendRecord(versions, version_key, version_record)
    IN /\ IF file = "knowledge"
          THEN /\ save_knowledge_fails(i, knowledge2)
               /\ memV' = [memV EXCEPT ![i] = Loaded(versions2)]
               /\ diskV' = diskV
          ELSE /\ save_knowledge(i, knowledge2)
               /\ save_versions_fails(i, versions2)
       /\ shared' = shared
       /\ ret' = Ret(i, FALSE, "OSError", 0)

\* add_knowledge of a new item whose save raises
add_knowledge_save_fails(i, c, file) ==
    LET knowledge0 == load_knowledge(i)
        versions == load_versions(i)
        key == get_type_key(c.data_type)
        knowledge == IF key \in DOMAIN knowledge0 THEN knowledge0
                     ELSE DictSet(knowledge0, key, <<>>)
        confidence == IF c.confidence = NoneInt
                      THEN DictGet(DEFAULT_CONFIDENCE, c.source, 70)
                      ELSE c.confidence
    IN /\ find_existing(c.data, knowledge[key]) = 0
       /\ add_new_save_fails(i, knowledge, versions, key, c.data,
                             c.source, confidence, c.verified, file)
       /\ now' = now + 1
       /\ backups' = backups
       /\ UNCHANGED vsvars

\* add_knowledge when json.load raises JSONDecodeError on a file that is not
\* cached: the knowledge file is read first
add_knowledge_load_fails(i) ==
    /\ \/ /\ ~memK[i].loaded /\ IsTorn(diskK)
          /\ memK' = memK
       \/ /\ memK[i].loaded \/ ~IsTorn(diskK)
          /\ ~memV[i].loaded /\ IsTorn(diskV)
          /\ memK' = [memK EXCEPT ![i] = Loaded(load_knowledge(i))]
    /\ ret' = Ret(i, FALSE, "JSONDecodeError", 0)
    /\ UNCHANGED <<memV, shared, diskK, diskV, backups, now, vsvars>>

\* a new KnowledgeManager object over the same two files
Construct(i) ==
    /\ memK' = [memK EXCEPT ![i] = [loaded |-> FALSE, doc |-> EmptyDict]]
    /\ memV' = [memV EXCEPT ![i] = [loaded |-> FALSE, doc |-> EmptyDict]]
    /\ shared' = [shared EXCEPT ![i] = {}]
    /\ ret' = Ret(i, TRUE, "constructed", 0)
    /\ UNCHANGED <<diskK, diskV, backups, now, vsvars>>

add_knowledge(i, c) ==
    LET knowledge0 == load_knowledge(i)
        versions == load_versions(i)
        key == get_type_key(c.data_type)
        knowledge == IF key \in DOMAIN knowledge0 THEN knowledge0
                     ELSE DictSet(knowledge0, key, <<>>)
        confidence == IF c.confidence = NoneInt
                      THEN DictGet(DEFAULT_CONFIDENCE, c.source, 70)
                      ELSE c.confidence
        existing_idx == find_existing(c.data, knowledge[key])
    IN /\ IF existing_idx # 0
          THEN update_existing(i, knowledge, versions, key, existing_idx, c.data,
                               c.source, confidence, c.verified, c.changes)
          ELSE add_new(i, knowledge, versions, key, c.data,
                       c.source, confidence, c.verified)
       /\ now' = now + 1
       /\ backups' = backups
       /\ UNCHANGED vsvars

----------------------------------------------------------------------------
(* KnowledgeManager.add_feedback, verify_knowledge, backup                  *)
(* positive_rate < 0.3 and < 0.5 are compared exactly: 10 * positive <      *)
(* 3 * total and 2 * positive < total.                                      *)

\* the name is matched as _find_existing matches it: lower-cased, against names
\* and aliases
find_by_name_or_alias(items, name) ==
    LET hits == {n \in 1..Len(items) : ItemMatches(items[n], StrLower(name))}
    IN IF hits = {} THEN 0 ELSE CHOOSE n \in hits : \A m \in hits : n <= m

\* index of the first item whose "name" equals `name` exactly, 0 if none
find_by_name(items, name) ==
    LET hits == {n \in 1..Len(items) :
                    "name" \in DOMAIN items[n] /\ items[n]["name"] = name}
    IN IF hits = {} THEN 0 ELSE CHOOSE n \in hits : \A m \in hits : n <= m

\* the two threshold tests in the opposite order
FeedbackStatusPendingFirst(meta) ==
    LET total == meta.positive_feedback + meta.negative_feedback
    IN IF total > 0
       THEN IF 2 * meta.positive_feedback < total /\ total >= 3 THEN "pending"
            ELSE IF 10 * meta.positive_feedback < 3 * total /\ total >= 5 THEN "deprecated"
            ELSE meta.status
       ELSE meta.status

\* the status is recomputed from the counters alone: active when neither
\* threshold test holds
FeedbackStatusFromScratch(meta) ==
    LET total == meta.positive_feedback + meta.negative_feedback
    IN IF total > 0
       THEN IF 10 * meta.positive_feedback < 3 * total /\ total >= 5 THEN "deprecated"
            ELSE IF 2 * meta.positive_feedback < total /\ total >= 3 THEN "pending"
            ELSE "active"
       ELSE meta.status

FeedbackStatus(meta) ==
    LET total == meta.positive_feedback + meta.negative_feedback
    IN IF total > 0
       THEN IF 10 * meta.positive_feedback < 3 * total /\ total >= 5 THEN "deprecated"
            ELSE IF 2 * meta.positive_feedback < total /\ total >= 3 THEN "pending"
            ELSE meta.status
       ELSE meta.status

\* feedback_count is not incremented
FeedbackMetaNoCount(meta, is_positive) ==
    LET counted == [meta EXCEPT
                      !.positive_feedback = IF is_positive THEN @ + 1 ELSE @,
                      !.negative_feedback = IF is_positive THEN @ ELSE @ + 1]
    IN [counted EXCEPT !.status = FeedbackStatus(counted)]

FeedbackMeta(meta, is_positive) ==
    LET counted == [meta EXCEPT
                      !.feedback_count = @ + 1,
                      !.positive_feedback = IF is_positive THEN @ + 1 ELSE @,
                      !.negative_feedback = IF is_positive THEN @ ELSE @ + 1]
    IN [counted EXCEPT !.status = FeedbackStatus(counted)]

\* the status is left as it was
VerifiedMetaKeepStatus(meta, verified_by, t) ==
    [meta EXCEPT !.verified = TRUE, !.verified_by = verified_by,
                 !.verified_at = t, !.confidence = 100]

VerifiedMeta(meta, verified_by, t) ==
    [meta EXCEPT !.verified = TRUE, !.verified_by = verified_by,
                 !.verified_at = t, !.confidence = 100, !.status = "active"]

\* the item's "_meta" dict is changed in place and the knowledge file rewritten;
\* the ledger file is not
MutateMeta(i, knowledge, key, idx, meta) ==
    LET item == [knowledge[key][idx] EXCEPT !["_meta"] = meta]
    IN /\ save_knowledge(i, [knowledge EXCEPT ![key][idx] = item])
       /\ memV' = [memV EXCEPT ![i].doc = MutateInPlace(shared[i], @, key, idx, item)]
       /\ UNCHANGED <<shared, diskV>>

NotFound(i, knowledge) ==
    /\ memK' = [memK EXCEPT ![i] = Loaded(knowledge)]
    /\ UNCHANGED <<memV, shared, diskK, diskV>>

add_feedback(i, data_type, name, is_positive) ==
    LET knowledge == load_knowledge(i)
        key == get_type_key(data_type)
    IN /\ IF key \notin DOMAIN knowledge
          THEN /\ NotFound(i, knowledge)
               /\ ret' = Ret(i, FALSE, "type not found", 0)
          ELSE LET idx == find_by_name(knowledge[key], name)
               IN IF idx # 0
                  THEN /\ MutateMeta(i, knowledge, key, idx,
                                     FeedbackMeta(knowledge[key][idx]["_meta"], is_positive))
                       /\ ret' = Ret(i, TRUE, "feedback recorded", 0)
                  ELSE /\ NotFound(i, knowledge)
                       /\ ret' = Ret(i, FALSE, "knowledge not found", 0)
       /\ UNCHANGED <<now, backups, vsvars>>

verify_knowledge(i, data_type, name, verified_by) ==
    LET knowledge == load_knowledge(i)
        key == get_type_key(data_type)
    IN /\ IF key \notin DOMAIN knowledge
          THEN /\ NotFound(i, knowledge)
               /\ ret' = Ret(i, FALSE, "type not found", 0)
               /\ UNCHANGED <<now, backups>>
          ELSE LET idx == find_by_name(knowledge[key], name)
               IN IF idx # 0
                  THEN /\ MutateMeta(i, knowledge, key, idx,
                                     VerifiedMeta(knowledge[key][idx]["_meta"], verified_by, now))
                       /\ ret' = Ret(i, TRUE, "verified", 0)
                       /\ now' = now + 1
                       /\ backups' = backups
                  ELSE /\ NotFound(i, knowledge)
                       /\ ret' = Ret(i, FALSE, "knowledge not found", 0)
                       /\ UNCHANGED <<now, backups>>
       /\ UNCHANGED vsvars

get_knowledge_versions(i, data_type, name) ==
    DictGet(load_versions(i), <<get_type_key(data_type), name>>, <<>>)

\* shutil.move in place of shutil.copy
backup_moving(i) ==
    /\ backups' = [k |-> IF diskK.exists THEN DictSet(backups.k, now, diskK.doc)
                         ELSE backups.k,
                   v |-> IF diskV.exists THEN DictSet(backups.v, now, diskV.doc)
                         ELSE backups.v]
    /\ diskK' = [exists |-> FALSE, doc |-> EmptyDict]
    /\ diskV' = [exists |-> FALSE, doc |-> EmptyDict]
    /\ now' = now + 1
    /\ ret' = Ret(i, TRUE, "timestamp", now)
    /\ UNCHANGED <<memK, memV, shared, vsvars>>

backup(i) ==
    /\ backups' = [k |-> IF diskK.exists THEN DictSet(backups.k, now, diskK.doc)
                         ELSE backups.k,
                   v |-> IF diskV.exists THEN DictSet(backups.v, now, diskV.doc)
                         ELSE backups.v]
    /\ now' = now + 1
    /\ ret' = Ret(i, TRUE, "timestamp", now)
    /\ UNCHANGED <<memK, memV, shared, diskK, diskV, vsvars>>

----------------------------------------------------------------------------
(* src/skills/vector_store.py: keyword path                                 *)

\* Python's `q in s` on strings
IsSubstr(q, s) ==
    \E n \in 0..(Len(s) - Len(q)) : SubSeq(s, n + 1, n + Len(q)) = q

SearchResult(data, score, data_type, search_type) ==
    [data |-> data, score |-> score, data_type |-> data_type,
     search_type |-> search_type]

\* list.sort(key=score, reverse=True): stable, equal scores keep their order
RECURSIVE SortByScore(_)
SortByScore(rs) ==
    IF rs = <<>> THEN <<>>
    ELSE LET front == SortByScore(SubSeq(rs, 1, Len(rs) - 1))
             x == rs[Len(rs)]
             k == Cardinality({n \in 1..Len(front) : front[n].score >= x.score})
         IN SubSeq(front, 1, k) \o <<x>> \o SubSeq(front, k + 1, Len(front))

Take(rs, n) == SubSeq(rs, 1, IF n < Len(rs) THEN n ELSE Len(rs))

RECURSIVE SumOver(_, _)
SumOver(f, S) ==
    IF S = {} THEN 0
    ELSE LET k == CHOOSE k \in S : TRUE IN f[k] + SumOver(f, S \ {k})

\* the loop over item.items(): every key not starting with "_", the name and
\* the aliases included
FieldScore(item, key, query_lower) ==
    IF key \in StrFields
    THEN IF IsSubstr(query_lower, StrLower(item[key])) THEN 3 ELSE 0
    ELSE IF key \in ListFields
         THEN IF \E v \in Range(item[key]) : IsSubstr(query_lower, StrLower(v))
              THEN 2 ELSE 0
         ELSE 0

keyword_score(item, query) ==
    LET query_lower == StrLower(query)
        name == StrLower(DictGet(item, "name", <<>>))
        aliases == DictGet(item, "aliases", <<>>)
        by_name == IF IsSubstr(query_lower, name) \/ IsSubstr(name, query_lower)
                   THEN 8 ELSE 0
        by_alias == IF \E al \in Range(aliases) : IsSubstr(query_lower, StrLower(al))
                    THEN 6 ELSE 0
        fields == DOMAIN item \ {"_meta"}
        by_field == [k \in fields |-> FieldScore(item, k, query_lower)]
    IN by_name + by_alias + SumOver(by_field, fields)

\* list(knowledge.keys()) when no data_type is given; the stores explored hold
\* at most one category
TypeKeys(knowledge, data_type) ==
    IF data_type # None THEN <<data_type>>
    ELSE CHOOSE ks \in PermsOf(DOMAIN knowledge) : TRUE

RECURSIVE KeywordHits(_, _, _)
KeywordHits(items, type_key, query) ==
    IF items = <<>> THEN <<>>
    ELSE LET item == items[Len(items)]
             score == keyword_score(item, query)
         IN KeywordHits(SubSeq(items, 1, Len(items) - 1), type_key, query)
            \o (IF score > 0
                THEN <<SearchResult(item, score, type_key, "keyword")>>
                ELSE <<>>)

RECURSIVE KeywordHitsOfTypes(_, _, _)
KeywordHitsOfTypes(knowledge, type_keys, query) ==
    IF type_keys = <<>> THEN <<>>
    ELSE KeywordHits(DictGet(knowledge, Head(type_keys), <<>>), Head(type_keys), query)
         \o KeywordHitsOfTypes(knowledge, Tail(type_keys), query)

keyword_search(knowledge, query, data_type, top_k) ==
    Take(SortByScore(KeywordHitsOfTypes(knowledge, TypeKeys(knowledge, data_type), query)),
         top_k)

----------------------------------------------------------------------------
(* src/skills/vector_store.py: index and semantic path                      *)

\* what build_index (a count) or hybrid_search (a list) returned
VRet(op, indexed, hits) == [op |-> op, indexed |-> indexed, hits |-> hits]

\* no index file: _load_index returns {}
NoIndex == [exists |-> FALSE, ids |-> <<>>, embeddings |-> EmptyDict, documents |-> EmptyDict]

\* similarities the encoder may give a query and a text: below and above the
\* default threshold 0.3
SemScores == {2, 9}

SemThreshold == 3

FishPlain == {"name", "habits", "lures", "techniques", "water_layer",
              "best_season", "best_time"}

FishIfPresent == {"aliases", "tips"}

\* the labelled parts of the text: for fish_species a fixed template, whose
\* alias and tips parts appear only when the field is non-empty; for a
\* category without template every field but "_meta". A list stands for its
\* ", ".join; the texts explored are shorter than the 500 characters kept.
create_document_text(item, data_type) ==
    IF data_type = "fish_species"
    THEN [k \in FishPlain \cup {f \in FishIfPresent : DictGet(item, f, <<>>) # <<>>}
             |-> DictGet(item, k, <<>>)]
    ELSE [k \in DOMAIN item \ {"_meta"} |-> item[k]]

text_to_embedding(text) == [encoded |-> text]

DocId(type_key, name) == <<type_key, name>>

IndexFile(ids, embeddings, documents) ==
    [exists |-> TRUE, ids |-> ids, embeddings |-> embeddings, documents |-> documents]

load_knowledge_file == IF diskK.exists THEN diskK.doc ELSE EmptyDict

\* the loop body of build_index for one item; acc is [index, count]
IndexItem(acc, item, type_key, force) ==
    LET name == DictGet(item, "name", <<>>)
        doc_id == DocId(type_key, name)
        text == create_document_text(item, type_key)
    IN IF name = <<>> THEN acc
       ELSE IF doc_id \in DOMAIN acc.index.embeddings /\ ~force THEN acc
       ELSE [index |->
                IndexFile(IF doc_id \in DOMAIN acc.index.embeddings
                          THEN acc.index.ids ELSE Append(acc.index.ids, doc_id),
                          DictSet(acc.index.embeddings, doc_id, text_to_embedding(text)),
                          DictSet(acc.index.documents, doc_id,
                                  [type |-> type_key, name |-> name, text |-> text])),
             count |-> acc.count + 1]

RECURSIVE IndexItems(_, _, _, _)
IndexItems(acc, items, type_key, force) ==
    IF items = <<>> THEN acc
    ELSE IndexItems(IndexItem(acc, Head(items), type_key, force),
                    Tail(items), type_key, force)

RECURSIVE IndexTypes(_, _, _, _)
IndexTypes(acc, knowledge, type_keys, force) ==
    IF type_keys = <<>> THEN acc
    ELSE IndexTypes(IndexItems(acc, knowledge[Head(type_keys)], Head(type_keys), force),
                    knowledge, Tail(type_keys), force)

\* build_index with a working encoder: [index, count]; the file is written
\* only when something was embedded
BuiltIndex(force) ==
    LET knowledge == load_knowledge_file
        existing_index == IF force THEN NoIndex ELSE index
        built == IndexTypes([index |-> existing_index, count |-> 0],
                            knowledge, TypeKeys(knowledge, None), force)
    IN [index |-> IF built.count > 0 THEN built.index ELSE index,
        count |-> built.count]

build_index(force) ==
    /\ IF available
       THEN /\ index' = BuiltIndex(force).index
            /\ vret' = VRet("build", BuiltIndex(force).count, <<>>)
       ELSE /\ index' = index
            /\ vret' = VRet("build", 0, <<>>)
    /\ UNCHANGED <<memK, memV, shared, diskK, diskV, backups, now, ret, available>>

\* the index search() works on: built on the spot when it has no embeddings
SearchIndex == IF index.embeddings = EmptyDict THEN BuiltIndex(FALSE).index ELSE index

\* the loop of search() over the embeddings, in their order; sem gives the
\* cosine similarity of the query to every indexed text
RECURSIVE SemanticHits(_, _, _, _, _)
SemanticHits(ids, idx, knowledge, data_type, sem) ==
    IF ids = <<>> THEN <<>>
    ELSE LET doc_id == ids[Len(ids)]
             doc_info == idx.documents[doc_id]
             items == DictGet(knowledge, doc_info.type, <<>>)
             n == find_by_name(items, doc_info.name)
         IN SemanticHits(SubSeq(ids, 1, Len(ids) - 1), idx, knowledge, data_type, sem)
            \o (IF /\ data_type = None \/ doc_info.type = data_type
                   /\ sem[doc_id] >= SemThreshold
                   /\ n # 0
                THEN <<SearchResult(items[n], sem[doc_id], doc_info.type, "semantic")>>
                ELSE <<>>)

\* the list search() returns
search(query, top_k, data_type, sem) ==
    IF ~available THEN <<>>
    ELSE Take(SortByScore(SemanticHits(SearchIndex.ids, SearchIndex,
                                       load_knowledge_file, data_type, sem)),
              top_k)

ResultKey(result) == <<result.data_type, DictGet(result.data, "name", StrNone)>>

KeyPos(combined, key) ==
    LET hits == {n \in 1..Len(combined) : combined[n].key = key}
    IN IF hits = {} THEN 0 ELSE CHOOSE n \in hits : TRUE

\* combined[key] = SearchResult(... score * semantic_weight ... "semantic")
RECURSIVE CombineSemantic(_, _)
CombineSemantic(semantic_results, semantic_weight) ==
    IF semantic_results = <<>> THEN <<>>
    ELSE LET combined == CombineSemantic(SubSeq(semantic_results, 1,
                                                 Len(semantic_results) - 1),
                                          semantic_weight)
             r == semantic_results[Len(semantic_results)]
             entry == [key |-> ResultKey(r),
                       val |-> SearchResult(r.data, r.score * semantic_weight,
                                            r.data_type, "semantic")]
             n == KeyPos(combined, ResultKey(r))
         IN IF n # 0 THEN [combined EXCEPT ![n] = entry] ELSE Append(combined, entry)

\* an entry already there is replaced by the keyword result instead of summed
RECURSIVE CombineKeywordOverwrite(_, _, _)
CombineKeywordOverwrite(combined0, keyword_results, keyword_weight) ==
    IF keyword_results = <<>> THEN combined0
    ELSE LET combined == CombineKeywordOverwrite(combined0,
                                        SubSeq(keyword_results, 1, Len(keyword_results) - 1),
                                        keyword_weight)
             r == keyword_results[Len(keyword_results)]
             n == KeyPos(combined, ResultKey(r))
             entry == [key |-> ResultKey(r),
                       val |-> SearchResult(r.data, r.score * keyword_weight,
                                            r.data_type, "keyword")]
         IN IF n # 0 THEN [combined EXCEPT ![n] = entry] ELSE Append(combined, entry)

\* the loop over the keyword results: add to an entry already there, or insert
RECURSIVE CombineKeyword(_, _, _)
CombineKeyword(combined0, keyword_results, keyword_weight) ==
    IF keyword_results = <<>> THEN combined0
    ELSE LET combined == CombineKeyword(combined0,
                                        SubSeq(keyword_results, 1, Len(keyword_results) - 1),
                                        keyword_weight)
             r == keyword_results[Len(keyword_results)]
             n == KeyPos(combined, ResultKey(r))
         IN IF n # 0
            THEN [combined EXCEPT
                    ![n].val.score = @ + r.score * keyword_weight,
                    ![n].val.search_type = "hybrid"]
            ELSE Append(combined,
                        [key |-> ResultKey(r),
                         val |-> SearchResult(r.data, r.score * keyword_weight,
                                              r.data_type, "keyword")])

Values(combined) == [n \in 1..Len(combined) |-> combined[n].val]

\* nothing is returned unless the semantic path found something
HybridResultsNeedSemantic(query, top_k, data_type, semantic_weight, sem) ==
    LET knowledge == load_knowledge_file
        keyword_results == keyword_search(knowledge, query, data_type, top_k * 2)
        semantic_results == search(query, top_k * 2, data_type, sem)
        combined == CombineKeyword(CombineSemantic(semantic_results, semantic_weight),
                                   keyword_results, 10 - semantic_weight)
    IN IF semantic_results = <<>> THEN <<>>
       ELSE Take(SortByScore(Values(combined)), top_k)

\* the list hybrid_search returns; weights in tenths
HybridResults(query, top_k, data_type, semantic_weight, sem) ==
    LET knowledge == load_knowledge_file
        keyword_results == keyword_search(knowledge, query, data_type, top_k * 2)
        semantic_results == search(query, top_k * 2, data_type, sem)
        combined == CombineKeyword(CombineSemantic(semantic_results, semantic_weight),
                                   keyword_results, 10 - semantic_weight)
    IN Take(SortByScore(Values(combined)), top_k)

\* without a backend no similarity is computed
SemChoices == [Range(IF available THEN SearchIndex.ids ELSE <<>>) -> SemScores]

hybrid_search(query, top_k, data_type, semantic_weight) ==
    /\ \E sem \in SemChoices :
          vret' = VRet("search", 0,
                       HybridResults(query, top_k, data_type, semantic_weight, sem))
    /\ index' = IF available THEN SearchIndex ELSE index
    /\ UNCHANGED <<memK, memV, shared, diskK, diskV, backups, now, ret, available>>

----------------------------------------------------------------------------
(* Inputs                                                                   *)

sa == <<"a">>
sA == <<"A">>
sbb == <<"b", "b">>

RecA == [name |-> sa, tips |-> <<"x">>]
RecACase == [name |-> sA, tips |-> <<"x", "y">>]
RecAAlias == [name |-> sa, aliases |-> <<sbb>>]
RecBbAlias == [name |-> sbb, aliases |-> <<sA>>]
RecBb == [name |-> sbb]
RecEmptyName == [name |-> <<>>, tips |-> <<"x">>]
RecNoName == [tips |-> <<"x">>]

\* names with aliases and case variants, one provenance
MainCalls ==
    {Call(r, "fish", "manual", NoneInt, FALSE, "") :
        r \in {RecA, RecACase, RecAAlias, RecBbAlias}}

\* one name; provenances with a high and a low default confidence, verified or
\* not, and an explicit confidence below and above the defaults
MetaCalls ==
    {Call(RecA, "fish", src, NoneInt, ver, "") :
        src \in {"expert", "llm_generated"}, ver \in BOOLEAN}
    \cup {Call(RecA, "fish", "manual", conf, FALSE, "review") : conf \in {50, 95}}

\* one name, a default and an explicit low confidence
FbCalls ==
    {Call(RecA, "fish", "llm_generated", NoneInt, FALSE, ""),
     Call(RecA, "fish", "manual", 50, FALSE, "review")}

\* two different items, one provenance
TwoCalls == {Call(r, "fish", "manual", NoneInt, FALSE, "") : r \in {RecA, RecBb}}

\* well-formed and malformed candidates
ValidCalls ==
    {Call(r, "fish", "manual", NoneInt, FALSE, "") : r \in {RecA, RecEmptyName, RecNoName}}
    \cup {Call(RecA, "bogus", "collected", 50, TRUE, "fix")}

\* an item, a case variant with longer tips that merges into it, an item that
\* is reached through an alias
VSCalls ==
    {Call(r, "fish", "manual", NoneInt, FALSE, "") : r \in {RecA, RecACase, RecBbAlias}}

\* queries that hit a name, a name inside the query, an alias, the tips, nothing
Queries == {sa, sA, <<"a", "x">>, <<"b">>, <<"x">>, <<"z">>}

TopKs == {1, 2}

\* semantic_weight 0, the default 0.7, and 1
Weights == {0, 7, 10}

Names == {sa, sA, sbb}

\* the feedback counter of the target stays below n (bound of the exploration)
FeedbackRoom(i, data_type, name, n) ==
    LET knowledge == load_knowledge(i)
        key == get_type_key(data_type)
    IN key \in DOMAIN knowledge =>
          \A m \in 1..Len(knowledge[key]) :
              ("name" \in DOMAIN knowledge[key][m] /\ knowledge[key][m]["name"] = name)
                  => knowledge[key][m]["_meta"].feedback_count < n

\* positive + negative feedback of the item called name (0 when absent)
FeedbackTotal(i, data_type, name) ==
    LET knowledge == load_knowledge(i)
        key == get_type_key(data_type)
        idx == IF key \in DOMAIN knowledge THEN find_by_name(knowledge[key], name) ELSE 0
    IN IF idx = 0 THEN 0
       ELSE knowledge[key][idx]["_meta"].positive_feedback
            + knowledge[key][idx]["_meta"].negative_feedback

InitStore ==
    /\ memK = [i \in Inst |-> [loaded |-> FALSE, doc |-> EmptyDict]]
    /\ memV = [i \in Inst |-> [loaded |-> FALSE, doc |-> EmptyDict]]
    /\ shared = [i \in Inst |-> {}]
    /\ diskK = [exists |-> FALSE, doc |-> EmptyDict]
    /\ diskV = [exists |-> FALSE, doc |-> EmptyDict]
    /\ backups = [k |-> EmptyDict, v |-> EmptyDict]
    /\ now = 0
    /\ ret = Ret("-", FALSE, "", 0)
    /\ index = NoIndex
    /\ vret = VRet("-", 0, <<>>)

\* the members of DataType, and a string that is none of them
SchemaTypes ==
    {"fish", "lure", "rig", "spot_type", "spot", "equipment", "technique", "bird"}

\* records for validate_data: the name missing, empty, blank or given; the
\* optional aliases and tips missing, well typed, or ill typed (a string for
\* the list of aliases, a list of strings for the text of tips)
SchemaRecords ==
    {n @@ a @@ t :
        n \in {EmptyDict} \cup {("name" :> v) : v \in {<<>>, <<" ">>, sa}},
        a \in {EmptyDict, ("aliases" :> <<sbb>>), ("aliases" :> sbb)},
        t \in {EmptyDict, ("tips" :> <<"x">>), ("tips" :> <<sa, sbb>>)}}

\* three fish the query "x" finds by keyword: two by the name, one by the tips
FishX == [name |-> <<"x">>]
FishXy == [name |-> <<"x", "y">>]
FishC == [name |-> <<"c">>, tips |-> <<"x">>]

TopKCalls ==
    {Call(r, "fish", "manual", NoneInt, FALSE, "") : r \in {FishX, FishXy, FishC}}

\* a query that hits all three and one that hits a single name
TopKQueries == {<<"x">>, <<"c">>}

\* one record, flagged verified or not
RemergeCalls == {Call(RecA, "fish", "manual", NoneInt, ver, "") : ver \in BOOLEAN}

\* lures: tips of equal and of greater length, a case variant of the name,
\* alias lists that overlap, and the keyed map colors (neither list nor string)
LureA == [name |-> sa, tips |-> <<"x">>, colors |-> ("red" :> sa)]
LureATips == [name |-> sa, tips |-> <<"y">>, aliases |-> <<sbb>>]
LureALong == [name |-> sA, tips |-> <<"x", "y">>, aliases |-> <<sbb, sA>>]
LureABlue == [name |-> sa, colors |-> ("blue" :> sbb)]

MergeCalls ==
    {Call(r, "lure", "manual", NoneInt, FALSE, "") :
        r \in {LureA, LureATips, LureALong, LureABlue}}

\* sentence-transformers is installed and the model loads
Init == InitStore /\ available = TRUE

\* the embedding backend may be missing
InitVS == InitStore /\ available \in BOOLEAN

----------------------------------------------------------------------------
(* Spec: one store instance, names with aliases and case variants.          *)
(* Feedback is positive here: below the thresholds of 3 and 5 feedbacks its *)
(* polarity has no influence on the status; SpecFb explores both.           *)

AddStep == now < MaxClock /\ \E c \in MainCalls : add_knowledge("A", c)

FeedbackStep ==
    \E n \in Names :
        FeedbackRoom("A", "fish", n, MaxFeedback) /\ add_feedback("A", "fish", n, TRUE)

VerifyStep ==
    now < MaxClock /\ \E n \in Names : verify_knowledge("A", "fish", n, "expert1")

BackupStep == now < MaxClock /\ backup("A")

Next == AddStep \/ FeedbackStep \/ VerifyStep \/ BackupStep

Spec == Init /\ [][Next]_vars

----------------------------------------------------------------------------
(* SpecFb: one item, long runs of feedback                                  *)

AddStepFb == now < MaxClockFb /\ \E c \in FbCalls : add_knowledge("A", c)

FeedbackStepFb ==
    \E n \in {sa, sA}, p \in BOOLEAN :
        FeedbackRoom("A", "fish", n, MaxFeedbackFb) /\ add_feedback("A", "fish", n, p)

VerifyStepFb ==
    now < MaxClockFb /\ \E n \in {sa, sA} : verify_knowledge("A", "fish", n, "expert1")

NextFb == AddStepFb \/ FeedbackStepFb \/ VerifyStepFb

SpecFb == Init /\ [][NextFb]_vars

----------------------------------------------------------------------------
(* SpecMeta: one item, every provenance                                     *)

AddStepMeta == now < MaxClockMeta /\ \E c \in MetaCalls : add_knowledge("A", c)

FeedbackStepMeta ==
    \E p \in BOOLEAN :
        FeedbackRoom("A", "fish", sa, MaxFeedbackMeta) /\ add_feedback("A", "fish", sa, p)

VerifyStepMeta == now < MaxClockMeta /\ verify_knowledge("A", "fish", sa, "expert1")

NextMeta == AddStepMeta \/ FeedbackStepMeta \/ VerifyStepMeta

SpecMeta == Init /\ [][NextMeta]_vars

----------------------------------------------------------------------------
(* SpecTwo: two store instances over the same two files (positive feedback) *)

AddStepTwo == now < MaxClockTwo /\ \E i \in Inst, c \in TwoCalls : add_knowledge(i, c)

FeedbackStepTwo ==
    \E i \in Inst, n \in {sa, sbb} :
        FeedbackRoom(i, "fish", n, MaxFeedbackTwo) /\ add_feedback(i, "fish", n, TRUE)

VerifyStepTwo ==
    now < MaxClockTwo /\ \E i \in Inst, n \in {sa, sbb} :
        verify_knowledge(i, "fish", n, "expert1")

NextTwo == AddStepTwo \/ FeedbackStepTwo \/ VerifyStepTwo

SpecTwo == Init /\ [][NextTwo]_vars

----------------------------------------------------------------------------
(* SpecValid: candidates the Schema Registry accepts and rejects            *)

AddStepValid == now < MaxClockValid /\ \E c \in ValidCalls : add_knowledge("A", c)

FeedbackStepValid ==
    \E t \in {"fish", "bogus"}, n \in {sa, <<>>}, p \in BOOLEAN :
        FeedbackRoom("A", t, n, MaxFeedbackValid) /\ add_feedback("A", t, n, p)

VerifyStepValid ==
    now < MaxClockValid /\ \E t \in {"fish", "bogus"}, n \in {sa, <<>>} :
        verify_knowledge("A", t, n, "expert1")

NextValid == AddStepValid \/ FeedbackStepValid \/ VerifyStepValid

SpecValid == Init /\ [][NextValid]_vars

----------------------------------------------------------------------------
(* SpecRec: one item under feedback alone. The first five feedbacks of an    *)
(* item have any polarity, the later ones are positive; a merge starts the   *)
(* counters again. An item with four or more negative feedbacks among five   *)
(* or more was therefore deprecated by its fifth feedback.                   *)

AddStepRec == now < MaxClockRec /\ \E c \in FbCalls : add_knowledge("A", c)

FeedbackStepRec ==
    \E n \in {sa, sA}, p \in BOOLEAN :
        /\ FeedbackTotal("A", "fish", n) >= 5 => p
        /\ FeedbackRoom("A", "fish", n, MaxFeedbackRec)
        /\ add_feedback("A", "fish", n, p)

NextRec == AddStepRec \/ FeedbackStepRec

SpecRec == Init /\ [][NextRec]_vars

----------------------------------------------------------------------------
(* SpecIO: saves that raise OSError, and a store object constructed anew     *)
(* over the files a failed save left behind                                  *)

AddStepIO ==
    now < MaxClockIO /\ Readable("A") /\ \E c \in TwoCalls : add_knowledge("A", c)

AddFailsStepIO ==
    /\ now < MaxClockIO
    /\ Readable("A")
    /\ \E c \in TwoCalls, file \in {"knowledge", "versions"} :
          add_knowledge_save_fails("A", c, file)

LoadFailsStepIO == ~Readable("A") /\ add_knowledge_load_fails("A")

ConstructStepIO == memK["A"].loaded /\ Construct("A")

NextIO == AddStepIO \/ AddFailsStepIO \/ LoadFailsStepIO \/ ConstructStepIO

SpecIO == Init /\ [][NextIO]_vars

----------------------------------------------------------------------------
(* SpecSchema: validate_data applied to records of every shape and every    *)
(* data type.                                                               *)

ValidateStep == \E data \in SchemaRecords, data_type \in SchemaTypes : validate(data, data_type)

NextSchema == ValidateStep

SpecSchema == Init /\ [][NextSchema]_vars

----------------------------------------------------------------------------
(* SpecMerge: one instance, records of one lure that differ field by field. *)

AddStepMerge == now < MaxClockMerge /\ \E c \in MergeCalls : add_knowledge("A", c)

NextMerge == AddStepMerge

SpecMerge == Init /\ [][NextMerge]_vars

----------------------------------------------------------------------------
(* SpecRemerge: one instance, one item that is added again after feedback  *)
(* and verification. The feedback is negative: it takes the item to pending *)
(* at the third and to deprecated at the fifth.                             *)

AddStepRemerge == now < MaxClockRemerge /\ \E c \in RemergeCalls : add_knowledge("A", c)

FeedbackStepRemerge ==
    FeedbackRoom("A", "fish", sa, MaxFeedbackRemerge) /\ add_feedback("A", "fish", sa, FALSE)

VerifyStepRemerge == now < MaxClockRemerge /\ verify_knowledge("A", "fish", sa, "expert1")

NextRemerge == AddStepRemerge \/ FeedbackStepRemerge \/ VerifyStepRemerge

SpecRemerge == Init /\ [][NextRemerge]_vars

----------------------------------------------------------------------------
(* SpecTopK: the store and the vector store with up to three items, so that *)
(* a path of hybrid_search(top_k = 1) has more matches than the two it      *)
(* keeps.                                                                   *)

AddStepTopK == now < MaxClockTopK /\ \E c \in TopKCalls : add_knowledge("A", c)

BuildStepTopK == \E force \in BOOLEAN : build_index(force)

SearchStepTopK ==
    /\ vret.op # "search"
    /\ \E q \in TopKQueries, k \in TopKs, w \in Weights : hybrid_search(q, k, None, w)

NextTopK == AddStepTopK \/ BuildStepTopK \/ SearchStepTopK

SpecTopK == InitVS /\ [][NextTopK]_vars

----------------------------------------------------------------------------
(* SpecVS: the store and the vector store over the same knowledge file, with *)
(* and without an embedding backend                                          *)

AddStepVS == now < MaxClockVS /\ \E c \in VSCalls : add_knowledge("A", c)

BuildStepVS == \E force \in BOOLEAN : build_index(force)

\* a search reads the knowledge file and the index, never what the previous
\* call returned: a search right after a search reaches no further store or
\* index and is left out
SearchStepVS ==
    /\ vret.op # "search"
    /\ \E q \in Queries, k \in TopKs, w \in Weights : hybrid_search(q, k, None, w)

NextVS == AddStepVS \/ BuildStepVS \/ SearchStepVS

SpecVS == InitVS /\ [][NextVS]_vars

----------------------------------------------------------------------------
(* Properties                                                               *)

Keys(doc) == DOMAIN doc

ItemName(item) == DictGet(item, "name", StrNone)

Fields(item) == [k \in DOMAIN item \ {"_meta"} |-> item[k]]

IsPrefix(s, t) == Len(s) <= Len(t) /\ \A n \in 1..Len(s) : s[n] = t[n]

Labels(item) ==
    {StrLower(DictGet(item, "name", <<>>))}
    \cup {StrLower(al) : al \in Range(DictGet(item, "aliases", <<>>))}

\* C1: within one category no two stored items share a name or an alias,
\* compared case-insensitively
C1_NoSharedNameOrAlias ==
    LET knowledge == load_knowledge("A")
    IN \A key \in Keys(knowledge) :
          \A m, n \in 1..Len(knowledge[key]) :
              m # n => Labels(knowledge[key][m]) \cap Labels(knowledge[key][n]) = {}

\* C2: a candidate the Schema Registry rejects is not accepted, and neither
\* the knowledge collection nor the version ledger changes, in memory or on disk
C2_InvalidRejected ==
    [][\A c \in ValidCalls :
          (~validate_data(c.data, c.data_type) /\ add_knowledge("A", c))
              => /\ ~ret'.ok
                 /\ diskK' = diskK
                 /\ diskV' = diskV
                 /\ memK'["A"].doc = load_knowledge("A")
                 /\ memV'["A"].doc = load_versions("A")]_vars

\* C3: for every stored item the length of its ledger history equals its
\* current version
C3_HistoryLenIsVersion ==
    LET knowledge == load_knowledge("A")
    IN \A key \in Keys(knowledge) :
          \A n \in 1..Len(knowledge[key]) :
              Len(get_knowledge_versions("A", key, ItemName(knowledge[key][n])))
                  = knowledge[key][n]["_meta"].version

AppendOnly(old, new) ==
    \A vk \in DOMAIN old : vk \in DOMAIN new /\ IsPrefix(old[vk], new[vk])

\* C5: every VersionRecord recorded earlier is still at the same position of
\* its history with the same content, in memory and in the persisted ledger
C5_LedgerAppendOnly ==
    [][/\ AppendOnly(load_versions("A"), memV'["A"].doc)
       /\ AppendOnly(diskV.doc, diskV'.doc)]_vars

AllItems(doc) == UNION {{<<key, it>> : it \in Range(doc[key])} : key \in DOMAIN doc}

\* instance b performs an accepted mutation of the item called name
Mutates(b, name) ==
    \/ \E c \in TwoCalls : c.data["name"] = name /\ add_knowledge(b, c)
    \/ add_feedback(b, "fish", name, TRUE) /\ ret'.ok
    \/ verify_knowledge(b, "fish", name, "expert1") /\ ret'.ok

\* C4: both instances have cached the collection, a's accepted mutation x is on
\* disk and unknown to b; b's accepted mutation of an item with another name
\* rewrites the whole file from b's cache, so x is no longer persisted
C4_LostUpdate ==
    [][\A a, b \in Inst :
          \A x \in AllItems(memK[a].doc) \ AllItems(memK[b].doc) :
              \A name \in {sa, sbb} \ {ItemName(x[2])} :
                  (/\ a # b
                   /\ memK[a].loaded /\ memK[b].loaded
                   /\ ret.inst = a /\ ret.ok
                   /\ Mutates(b, name))
                  => /\ x \in AllItems(diskK.doc)
                     /\ x \notin AllItems(diskK'.doc)
                     /\ diskK'.doc = memK'[b].doc]_vars

\* C4 witness: after b's accepted call, an item a holds is absent from the file
C4_Witness ==
    \E a, b \in Inst :
        /\ a # b /\ memK[a].loaded /\ memK[b].loaded
        /\ ret.inst = b /\ ret.ok
        /\ \E x \in AllItems(memK[a].doc) :
              \A y \in AllItems(diskK.doc) : ItemName(y[2]) # ItemName(x[2])

SameValue(k, v, w) == IF k \in ListFields THEN Range(v) = Range(w) ELSE v = w

SameFields(item, data) ==
    /\ DOMAIN Fields(item) = DOMAIN data
    /\ \A k \in DOMAIN data : SameValue(k, item[k], data[k])

\* C6: a record that was just added as a new item and is added again leaves
\* exactly one item with that name, at version 2, with the record's fields
C6_AddTwiceSame ==
    [][\A c \in MainCalls :
          LET key == get_type_key(c.data_type)
              before == DictGet(load_knowledge("A"), key, <<>>)
              after == memK'["A"].doc[key]
              named == {n \in 1..Len(after) : ItemName(after[n]) = c.data["name"]}
          IN (/\ ret.inst = "A" /\ ret.msg = "added"
              /\ before # <<>>
              /\ Fields(before[Len(before)]) = c.data
              /\ add_knowledge("A", c))
             => /\ Cardinality(named) = 1
                /\ Len(after) = Len(before)
                /\ \A n \in named :
                      /\ after[n]["_meta"].version = 2
                      /\ SameFields(after[n], c.data)]_vars

\* C6 witness: an item at version 2 whose two ledger records are the creation
\* and the merge of the same fields
C6_Witness ==
    /\ ret.msg = "updated"
    /\ \E x \in AllItems(load_knowledge("A")) :
          LET h == get_knowledge_versions("A", x[1], ItemName(x[2]))
          IN /\ x[2]["_meta"].version = 2
             /\ Len(h) = 2
             /\ h[1].version = 1
             /\ SameFields(x[2], h[1].data)

CallConfidence(c) ==
    IF c.confidence = NoneInt THEN DEFAULT_CONFIDENCE[c.source] ELSE c.confidence

\* C7: a call that resolves to an existing item leaves its confidence at the
\* maximum of the old confidence and the call's (explicit or source default)
C7_ConfidenceIsMax ==
    [][\A c \in MetaCalls :
          LET key == get_type_key(c.data_type)
              before == DictGet(load_knowledge("A"), key, <<>>)
              idx == find_existing(c.data, before)
          IN (idx # 0 /\ add_knowledge("A", c))
             => LET old == before[idx]["_meta"].confidence
                    new == memK'["A"].doc[key][idx]["_meta"].confidence
                IN /\ new = (IF old >= CallConfidence(c) THEN old ELSE CallConfidence(c))
                   /\ new >= old]_vars

\* C7 witness: a merge from a low-confidence source kept the higher confidence
C7_Witness ==
    /\ ret.msg = "updated"
    /\ \E x \in AllItems(load_knowledge("A")) :
          /\ x[2]["_meta"].source = "llm_generated"
          /\ x[2]["_meta"].confidence > DEFAULT_CONFIDENCE["llm_generated"]

Grown(old, new) == {vk \in DOMAIN new : Len(new[vk]) # Len(DictGet(old, vk, <<>>))}

OneRecordAppended(old, new, version) ==
    /\ DOMAIN old \subseteq DOMAIN new
    /\ Cardinality(Grown(old, new)) = 1
    /\ \A vk \in Grown(old, new) :
          /\ Len(new[vk]) = Len(DictGet(old, vk, <<>>)) + 1
          /\ new[vk][Len(new[vk])].version = version

\* C8: creation is at version 1 with one VersionRecord of version 1; a merge
\* sets version to the previous + 1, parentVersion to the previous, and
\* appends one VersionRecord carrying the new version
C8_VersionStepping ==
    [][\A c \in MainCalls :
          LET key == get_type_key(c.data_type)
              before == DictGet(load_knowledge("A"), key, <<>>)
              after == memK'["A"].doc[key]
              idx == find_existing(c.data, before)
          IN add_knowledge("A", c)
             => /\ ret'.ok
                /\ IF idx = 0
                   THEN /\ Len(after) = Len(before) + 1
                        /\ after[Len(after)]["_meta"].version = 1
                        /\ OneRecordAppended(load_versions("A"), memV'["A"].doc, 1)
                   ELSE /\ Len(after) = Len(before)
                        /\ after[idx]["_meta"].version = before[idx]["_meta"].version + 1
                        /\ after[idx]["_meta"].parent_version = before[idx]["_meta"].version
                        /\ OneRecordAppended(load_versions("A"), memV'["A"].doc,
                                             before[idx]["_meta"].version + 1)]_vars

\* C8 witness: an item that was merged twice after its creation
C8_Witness ==
    /\ ret.msg = "updated"
    /\ \E x \in AllItems(load_knowledge("A")) :
          x[2]["_meta"].version = 3 /\ x[2]["_meta"].parent_version = 2

\* C9: an accepted verify leaves the target verified, at confidence 1.0,
\* active, with verifier and time recorded
C9_VerifyPostcondition ==
    [][\A n \in {sa, sA} :
          (verify_knowledge("A", "fish", n, "expert1") /\ ret'.ok)
          => LET key == get_type_key("fish")
                 idx == find_by_name(load_knowledge("A")[key], n)
                 m == memK'["A"].doc[key][idx]["_meta"]
             IN /\ m.verified /\ m.confidence = 100 /\ m.status = "active"
                /\ m.verified_by = "expert1" /\ m.verified_at # NoneInt
                /\ diskK'.doc[key][idx]["_meta"] = m]_vars

\* C9 witness: verify has just been accepted on an item that feedback had
\* deprecated and whose confidence was below 1.0
C9_Witness ==
    /\ ret.msg = "verified"
    /\ \E x \in AllItems(load_knowledge("A")) :
          LET m == x[2]["_meta"]
              h == get_knowledge_versions("A", x[1], ItemName(x[2]))
          IN /\ m.verified /\ m.confidence = 100 /\ m.status = "active"
             /\ m.positive_feedback = 1 /\ m.negative_feedback = 4
             /\ Len(h) = 1 /\ h[1].meta.confidence < 100

SpecStatus(positive, negative, status) ==
    IF positive + negative >= 5 /\ 10 * positive < 3 * (positive + negative)
    THEN "deprecated"
    ELSE IF positive + negative >= 3 /\ 2 * positive < positive + negative
         THEN "pending"
         ELSE status

\* C10: after each accepted feedback the status is deprecated if total >= 5 and
\* positiveRate < 0.3, else pending if total >= 3 and positiveRate < 0.5, else
\* unchanged; 1 positive and 4 negative on an active item end in deprecated
C10_FeedbackStatusRule ==
    [][\A n \in {sa, sA}, p \in BOOLEAN :
          (add_feedback("A", "fish", n, p) /\ ret'.ok)
          => LET key == get_type_key("fish")
                 idx == find_by_name(load_knowledge("A")[key], n)
                 old == load_knowledge("A")[key][idx]["_meta"]
                 new == memK'["A"].doc[key][idx]["_meta"]
             IN /\ new.positive_feedback + new.negative_feedback
                      = old.positive_feedback + old.negative_feedback + 1
                /\ new.status = SpecStatus(new.positive_feedback,
                                           new.negative_feedback, old.status)
                /\ (new.positive_feedback = 1 /\ new.negative_feedback = 4)
                      => new.status = "deprecated"]_vars

\* C10 witness: the fifth feedback, 1 positive and 4 negative, deprecated the item
C10_Witness ==
    /\ ret.msg = "feedback recorded"
    /\ \E x \in AllItems(load_knowledge("A")) :
          /\ x[2]["_meta"].positive_feedback = 1
          /\ x[2]["_meta"].negative_feedback = 4
          /\ x[2]["_meta"].status = "deprecated"

NoThreshold(meta) ==
    LET total == meta.positive_feedback + meta.negative_feedback
    IN /\ ~(total >= 5 /\ 10 * meta.positive_feedback < 3 * total)
       /\ ~(total >= 3 /\ 2 * meta.positive_feedback < total)

DeprecatedAtFifth(meta) ==
    meta.negative_feedback >= 4 /\ meta.positive_feedback + meta.negative_feedback >= 5

\* C11 as stated: an item that feedback has deprecated and whose later positive
\* feedback has raised the positive rate until neither threshold condition
\* holds is active again
C11_DeprecatedReturnsToActive ==
    \A x \in AllItems(load_knowledge("A")) :
        (DeprecatedAtFifth(x[2]["_meta"]) /\ NoThreshold(x[2]["_meta"]))
            => x[2]["_meta"].status = "active"

\* C11 amended: feedback alone never returns an item to active: an accepted
\* feedback leaves a deprecated or pending item deprecated or pending
C11_FeedbackNeverReactivates ==
    [][\A n \in {sa, sA}, p \in BOOLEAN :
          (add_feedback("A", "fish", n, p) /\ ret'.ok)
          => LET key == get_type_key("fish")
                 idx == find_by_name(load_knowledge("A")[key], n)
                 old == load_knowledge("A")[key][idx]["_meta"]
                 new == memK'["A"].doc[key][idx]["_meta"]
             IN /\ old.status \in {"deprecated", "pending"}
                      => new.status \in {"deprecated", "pending"}
                /\ new.status = "active" => old.status = "active"]_vars

\* C11 witness: an item deprecated by its fifth feedback has received positive
\* feedback until neither threshold condition holds and is still not active
C11_Witness ==
    /\ ret.msg = "feedback recorded"
    /\ \E x \in AllItems(load_knowledge("A")) :
          /\ DeprecatedAtFifth(x[2]["_meta"])
          /\ NoThreshold(x[2]["_meta"])
          /\ x[2]["_meta"].status # "active"

NoExactName(knowledge, key, name) ==
    key \in DOMAIN knowledge =>
        \A n \in 1..Len(knowledge[key]) :
            "name" \in DOMAIN knowledge[key][n] => knowledge[key][n]["name"] # name

NothingChanged(i) ==
    /\ memK'[i].doc = load_knowledge(i)
    /\ memV' = memV
    /\ diskK' = diskK
    /\ diskV' = diskV
    /\ backups' = backups

\* C12: feedback or verify for a name that no item of the category has exactly
\* (also when it is an alias or a case variant of a stored name) is not
\* accepted, returns a message, changes no item, counter or ledger record and
\* writes no file
C12_NotFoundNoMutation ==
    [][\A n \in Names :
          (/\ NoExactName(load_knowledge("A"), get_type_key("fish"), n)
           /\ \/ add_feedback("A", "fish", n, TRUE)
              \/ verify_knowledge("A", "fish", n, "expert1"))
          => /\ ~ret'.ok
             /\ ret'.msg \in {"type not found", "knowledge not found"}
             /\ NothingChanged("A")]_vars

\* C12 witness: a call was rejected while the only stored item is named "a"
\* and has the alias "bb": the rejected name was its alias or its case variant
C12_Witness ==
    /\ ret.msg = "knowledge not found"
    /\ ~ret.ok
    /\ LET items == DictGet(load_knowledge("A"), "fish_species", <<>>)
       IN /\ Len(items) = 1
          /\ ItemName(items[1]) = sa
          /\ sbb \in Range(DictGet(items[1], "aliases", <<>>))

CountersConsistent(meta) ==
    /\ meta.feedback_count \in Nat
    /\ meta.positive_feedback \in Nat
    /\ meta.negative_feedback \in Nat
    /\ meta.feedback_count = meta.positive_feedback + meta.negative_feedback

\* C13: in every reachable state every item, cached or persisted, has
\* non-negative feedback counters with feedbackCount = positive + negative
C13_FeedbackCounters ==
    \A x \in AllItems(load_knowledge("A")) \cup AllItems(diskK.doc) :
        CountersConsistent(x[2]["_meta"])

\* C13 witness: a merged item that has since received feedback of both
\* polarities
C13_Witness ==
    \E x \in AllItems(diskK.doc) :
        /\ x[2]["_meta"].version = 2
        /\ x[2]["_meta"].positive_feedback >= 1
        /\ x[2]["_meta"].negative_feedback >= 1

VerifyFields == {"verified", "verified_by", "verified_at", "confidence", "status"}

SameExcept(old_meta, new_meta, S) ==
    /\ DOMAIN old_meta = DOMAIN new_meta
    /\ \A f \in DOMAIN old_meta \ S : old_meta[f] = new_meta[f]

\* C14: an accepted verify changes nothing but the target's verified,
\* verifiedBy, verifiedAt, confidence and status: the item's version and data
\* fields, every other item and every VersionRecord of the ledger, as the
\* store returns it and as persisted, are as before
C14_VerifyMetadataOnly ==
    [][\A n \in Names :
          (verify_knowledge("A", "fish", n, "expert1") /\ ret'.ok)
          => LET key == get_type_key("fish")
                 before == load_knowledge("A")[key]
                 after == memK'["A"].doc[key]
                 idx == find_by_name(before, n)
             IN /\ Len(after) = Len(before)
                /\ \A m \in 1..Len(before) : m # idx => after[m] = before[m]
                /\ Fields(after[idx]) = Fields(before[idx])
                /\ SameExcept(before[idx]["_meta"], after[idx]["_meta"], VerifyFields)
                /\ memV'["A"].doc = load_versions("A")
                /\ diskV' = diskV]_vars

\* the item at a list position is what it was, or what a merge made of it:
\* no field dropped, version not lower
StillStored(old, new) ==
    \/ new = old
    \/ /\ DOMAIN old \subseteq DOMAIN new
       /\ new["_meta"].version >= old["_meta"].version

NoItemRemoved(old, new) ==
    \A key \in DOMAIN old :
        /\ key \in DOMAIN new
        /\ Len(new[key]) >= Len(old[key])
        /\ \A n \in 1..Len(old[key]) : StillStored(old[key][n], new[key][n])

\* C15: no operation of the store removes an item: in the store's collection
\* and in the persisted file the number of items of a category never decreases
\* and every list position that held an item still holds it
C15_NoHardDelete ==
    [][/\ NoItemRemoved(load_knowledge("A"), memK'["A"].doc)
       /\ NoItemRemoved(diskK.doc, diskK'.doc)
       /\ diskK.exists => diskK'.exists]_vars

\* C15 witness: a merge has rewritten the first of two stored items in place
C15_Witness ==
    /\ ret.msg = "updated"
    /\ LET items == DictGet(diskK.doc, "fish_species", <<>>)
       IN /\ Len(items) = 2
          /\ items[1]["_meta"].version = 2
          /\ items[2]["_meta"].version = 1

\* C16: a save that fails leaves the file with its complete previous document
\* or the complete new one, and no later load finds a document it cannot read
C16_AtomicSave ==
    [][/\ ret'.msg = "OSError"
          => /\ diskK' \in {diskK, File(memK'["A"].doc)}
             /\ diskV' \in {diskV, File(memV'["A"].doc)}
       /\ ret'.msg # "JSONDecodeError"]_vars

Contains(v, q) == IsSubstr(StrLower(q), StrLower(v))

\* the keyword score as the claim states it, in tenths
ClaimedKeywordScore(item, q) ==
    LET name == DictGet(item, "name", <<>>)
        strs == {k \in DOMAIN item \cap StrFields : k # "name" /\ Contains(item[k], q)}
        lists == {k \in DOMAIN item \cap ListFields :
                     \E v \in Range(item[k]) : Contains(v, q)}
    IN (IF Contains(name, q) \/ Contains(q, name) THEN 8 ELSE 0)
       + (IF \E al \in Range(DictGet(item, "aliases", <<>>)) : Contains(al, q)
          THEN 6 ELSE 0)
       + 3 * Cardinality(strs)
       + 2 * Cardinality(lists)

\* C19: for every stored item and query the keyword score is 0.8 for a name
\* match, plus 0.6 for an alias match, plus 0.3 for each string field other
\* than the name that contains the query, plus 0.2 for each list field with an
\* element containing it; the item is returned iff the sum is positive
C19_KeywordScore ==
    LET knowledge == load_knowledge_file
    IN \A x \in AllItems(knowledge), q \in Queries :
          /\ keyword_score(x[2], q) = ClaimedKeywordScore(x[2], q)
          /\ (\E r \in Range(keyword_search(knowledge, q, None, 10)) : r.data = x[2])
                <=> ClaimedKeywordScore(x[2], q) > 0

PosOfKey(rs, key) ==
    LET hits == {n \in 1..Len(rs) : ResultKey(rs[n]) = key}
    IN IF hits = {} THEN 0 ELSE CHOOSE n \in hits : TRUE

\* out is the fusion of the semantic results sres and the keyword results kres
\* under semantic weight w (tenths): scores in hundredths
Fused(out, sres, kres, w) ==
    /\ \A m, n \in 1..Len(out) : m # n => ResultKey(out[m]) # ResultKey(out[n])
    /\ \A n \in 1..Len(out) :
          LET si == PosOfKey(sres, ResultKey(out[n]))
              ki == PosOfKey(kres, ResultKey(out[n]))
          IN IF si # 0 /\ ki # 0
             THEN /\ out[n].score = sres[si].score * w + kres[ki].score * (10 - w)
                  /\ out[n].search_type = "hybrid"
             ELSE IF si # 0
             THEN /\ out[n].score = sres[si].score * w
                  /\ out[n].search_type = "semantic"
             ELSE /\ ki # 0
                  /\ out[n].score = kres[ki].score * (10 - w)
                  /\ out[n].search_type = "keyword"

NamedItems(knowledge) ==
    {x \in AllItems(knowledge) : DictGet(x[2], "name", <<>>) # <<>>}

\* the index entry of the item is the text and the vector of its content
Indexed(idx, x) ==
    LET doc_id == DocId(x[1], x[2]["name"])
        text == create_document_text(x[2], x[1])
    IN /\ doc_id \in DOMAIN idx.documents
       /\ idx.documents[doc_id].text = text
       /\ idx.embeddings[doc_id] = text_to_embedding(text)

\* C20: with a backend, a non-forced rebuild embeds exactly the named items
\* that are not indexed or whose content differs from what was indexed, a
\* forced one every named item; afterwards the index entry of every named
\* item is that of its current content
C20_IncrementalIndex ==
    [][\A force \in BOOLEAN :
          (available /\ build_index(force))
          => LET named == NamedItems(load_knowledge_file)
                 due == IF force THEN named ELSE {x \in named : ~Indexed(index, x)}
             IN /\ vret'.indexed = Cardinality(due)
                /\ \A x \in named : Indexed(index', x)]_vars

\* C21: every stored item has a non-empty name, and its aliases do not contain
\* the item's own name
C21_NameNotAmongAliases ==
    \A x \in AllItems(load_knowledge("A")) :
        /\ DictGet(x[2], "name", <<>>) # <<>>
        /\ DictGet(x[2], "name", <<>>) \notin Range(DictGet(x[2], "aliases", <<>>))

\* the copies kept before are still there, and the copy made at stamp, if
\* the file exists, is the file's content
CopyAdded(old, new, file, stamp) ==
    /\ \A t \in DOMAIN old : t \in DOMAIN new /\ new[t] = old[t]
    /\ IF file.exists
       THEN DOMAIN new = DOMAIN old \cup {stamp} /\ new[stamp] = file.doc
       ELSE new = old

RegistryCategories == {"fish", "lure", "rig", "spot_type"}

\* C23: validate_data returns true exactly when the category is one of the
\* registry's and the record has a name key with a non-empty value, whatever
\* the optional fields are
C23_ValidateFailsClosed ==
    ret.msg = "validate_data"
    => (ret.ok <=> /\ ret.val.data_type \in RegistryCategories
                   /\ "name" \in DOMAIN ret.val.data
                   /\ Len(ret.val.data["name"]) > 0)

\* C23 witness: a record with a name, no aliases and a list for tips was
\* accepted for a registered category
C23_Witness ==
    /\ ret.msg = "validate_data" /\ ret.ok
    /\ ret.val.data_type = "rig"
    /\ DOMAIN ret.val.data = {"name", "tips"}
    /\ Len(ret.val.data["tips"]) = 2

\* the merged value of field k as the merge rule states it
MergedAsStated(k, old, new, merged) ==
    IF k \notin DOMAIN new THEN merged[k] = old[k]
    ELSE IF k \notin DOMAIN old THEN merged[k] = new[k]
    ELSE IF k \in ListFields
         THEN /\ Range(merged[k]) = Range(old[k]) \cup Range(new[k])
              /\ Len(merged[k]) = Cardinality(Range(merged[k]))
    ELSE IF k \in StrFields
         THEN merged[k] = IF new[k] # old[k] /\ Len(new[k]) > Len(old[k])
                          THEN new[k] ELSE old[k]
    ELSE merged[k] = new[k]

\* C24: when add_knowledge resolves to an existing item, the stored item has
\* every field of the old item and of the candidate, and each field's value
\* is: the old one if the candidate lacks it, the new one if the item lacks
\* it, the duplicate-free union for two lists, for two strings the new one
\* iff it differs and is strictly longer, and the new value otherwise
C24_MergeFields ==
    [][\A c \in MergeCalls :
          LET key == get_type_key(c.data_type)
              before == DictGet(load_knowledge("A"), key, <<>>)
              idx == find_existing(c.data, before)
          IN (idx # 0 /\ add_knowledge("A", c))
             => LET merged == memK'["A"].doc[key][idx]
                IN /\ ret'.ok
                   /\ diskK'.doc = memK'["A"].doc
                   /\ DOMAIN Fields(merged)
                        = (DOMAIN before[idx] \cup DOMAIN c.data) \ {"_meta"}
                   /\ \A k \in DOMAIN Fields(merged) :
                         MergedAsStated(k, before[idx], c.data, merged)]_vars

\* C24 witness: an item merged out of three records: the name's first
\* spelling kept, the longer tips taken, the aliases united, the colors
\* replaced
C24_Witness ==
    /\ ret.msg = "updated"
    /\ \E x \in AllItems(load_knowledge("A")) :
          /\ x[2]["_meta"].version = 3
          /\ DOMAIN Fields(x[2]) = {"name", "tips", "aliases", "colors"}
          /\ x[2]["name"] = sa
          /\ x[2]["tips"] = <<"x", "y">>
          /\ Range(x[2]["aliases"]) = {sbb, sA}
          /\ x[2]["colors"] = ("blue" :> sbb)

\* C25: an accepted add_knowledge into an existing item leaves it with status
\* active whatever the status was, and verified iff it was verified or the
\* call's flag is set, in memory and in the file
C25_MergeStatusVerified ==
    [][\A c \in RemergeCalls :
          LET key == get_type_key(c.data_type)
              before == DictGet(load_knowledge("A"), key, <<>>)
              idx == find_existing(c.data, before)
          IN (idx # 0 /\ add_knowledge("A", c))
             => LET old_meta == before[idx]["_meta"]
                    new_meta == memK'["A"].doc[key][idx]["_meta"]
                IN /\ ret'.ok
                   /\ new_meta.status = "active"
                   /\ new_meta.verified = (old_meta.verified \/ c.verified)
                   /\ diskK'.doc[key][idx]["_meta"] = new_meta]_vars

\* C25 witness: the item was at version 2 and deprecated, as the item held by
\* the cached ledger record of version 2 tells, and the third add left it
\* active and verified
C25_Witness ==
    /\ ret.msg = "updated"
    /\ \E x \in AllItems(load_knowledge("A")) :
          LET h == get_knowledge_versions("A", x[1], ItemName(x[2]))
          IN /\ x[2]["_meta"].version = 3
             /\ x[2]["_meta"].status = "active"
             /\ x[2]["_meta"].verified
             /\ Len(h) = 3
             /\ h[2].data["_meta"].status = "deprecated"

MergeFields ==
    {"version", "updated_at", "source", "confidence", "verified", "status",
     "parent_version"}

\* C27: an accepted add_knowledge into an existing item changes, of its
\* metadata, only version, updated_at, source, confidence, verified, status
\* and parent_version: the feedback counters, verified_by, verified_at and
\* created_at are as before
C27_MergeKeepsOtherMeta ==
    [][\A c \in RemergeCalls :
          LET key == get_type_key(c.data_type)
              before == DictGet(load_knowledge("A"), key, <<>>)
              idx == find_existing(c.data, before)
          IN (idx # 0 /\ add_knowledge("A", c))
             => SameExcept(before[idx]["_meta"],
                           memK'["A"].doc[key][idx]["_meta"], MergeFields)]_vars

\* C28: when a candidate resolves to an existing item, by another spelling of
\* its name or by one of its aliases, the item's name after the merge is the
\* string it was before
C28_MergeKeepsName ==
    [][\A c \in MainCalls :
          LET key == get_type_key(c.data_type)
              before == DictGet(load_knowledge("A"), key, <<>>)
              idx == find_existing(c.data, before)
          IN (idx # 0 /\ add_knowledge("A", c))
             => memK'["A"].doc[key][idx]["name"] = before[idx]["name"]]_vars

FeedbackFields ==
    {"feedback_count", "positive_feedback", "negative_feedback", "status"}

\* C29: an accepted add_feedback changes nothing but the target's feedback
\* counters and status: the item's other metadata and its data fields, every
\* other item and every VersionRecord of the ledger, as the store returns it
\* and as persisted, are as before
C29_FeedbackFrame ==
    [][\A n \in Names :
          (add_feedback("A", "fish", n, TRUE) /\ ret'.ok)
          => LET key == get_type_key("fish")
                 before == load_knowledge("A")[key]
                 after == memK'["A"].doc[key]
                 idx == find_by_name(before, n)
             IN /\ Len(after) = Len(before)
                /\ \A m \in 1..Len(before) : m # idx => after[m] = before[m]
                /\ Fields(after[idx]) = Fields(before[idx])
                /\ SameExcept(before[idx]["_meta"], after[idx]["_meta"], FeedbackFields)
                /\ memV'["A"].doc = load_versions("A")
                /\ diskV' = diskV]_vars

\* C30: after add_knowledge, add_feedback or verify_knowledge has returned
\* successfully, the instance's cached collection is the content of the
\* knowledge file and its cached ledger the content of the ledger file
C30_CacheEqualsDisk ==
    (ret.inst = "A" /\ ret.ok /\ ret.msg # "timestamp")
    => /\ memK["A"].doc = diskK.doc
       /\ memV["A"].doc = diskV.doc

\* the fusion of every match of the two paths, none cut off
FullFusion(q, w, sem) ==
    LET knowledge == load_knowledge_file
        all == Cardinality(AllItems(knowledge))
    IN Values(CombineKeyword(CombineSemantic(search(q, all, None, sem), w),
                             keyword_search(knowledge, q, None, all), 10 - w))

\* C26: for every query, topK, weight and similarity of the indexed texts the
\* results of hybrid_search are sorted by non-increasing score and at most
\* topK; each carries the score and the tag of the fusion of its full keyword
\* score and its full semantic score; and no match left out scores higher in
\* that fusion than a returned one
C26_TrueTopK ==
    \A q \in TopKQueries, k \in TopKs, w \in Weights, sem \in SemChoices :
        LET out == HybridResults(q, k, None, w, sem)
            full == FullFusion(q, w, sem)
        IN /\ Len(out) <= k
           /\ \A n \in 1..(Len(out) - 1) : out[n].score >= out[n + 1].score
           /\ \A n \in 1..Len(out) :
                 \E m \in 1..Len(full) :
                     /\ ResultKey(full[m]) = ResultKey(out[n])
                     /\ full[m].score = out[n].score
                     /\ full[m].search_type = out[n].search_type
           /\ \A m \in 1..Len(full) :
                 (\A n \in 1..Len(out) : ResultKey(out[n]) # ResultKey(full[m]))
                 => \A n \in 1..Len(out) : full[m].score <= out[n].score

====
